---- MODULE Spec2Model ----
(***************************************************************************)
(* MobileOne (kimm/_src/models/mobileone.py): assembly of the backbone by  *)
(* MobileOne.__init__ and the weight transfer of                           *)
(* MobileOne.get_reparameterized_model, as a state machine.                *)
(*                                                                         *)
(* One run constructs a model (`self`) from a VariantSpec, a mode flag and *)
(* a weights descriptor, then calls get_reparameterized_model on it, which *)
(* constructs a second model (`model`) and writes its layers pairwise.     *)
(***************************************************************************)
EXTENDS Integers, Sequences, FiniteSets, TLC

VARIABLES
    pc,                 \* control position
    who,                \* the object the running __init__ builds: "self" | "model"
    kw,                 \* the arguments of the running __init__ call
    x,                  \* the current KerasTensor
    features,           \* the `features` dict, in insertion order
    layers,             \* the layers the running __init__ has created
    current_strides,    \* line 72
    current_stage_idx,  \* line 73
    current_block_idx,  \* line 78
    strides,            \* line 76
    block_iter,         \* the `_` of `for _ in range(n)`, line 80
    self,               \* the constructed source model
    model,              \* the local `model` of get_reparameterized_model
    pair_idx,           \* position in zip(self.layers, model.layers), line 158
    returned,           \* the value get_reparameterized_model returned
    err                 \* the exception raised, "none" when none

vars == <<pc, who, kw, x, features, layers, current_strides, current_stage_idx,
          current_block_idx, strides, block_iter, self, model, pair_idx,
          returned, err>>

----------------------------------------------------------------------------
(* Bounds of the generated VariantSpecs.                                   *)

MaxStages == 2
MaxBlocks == 2

----------------------------------------------------------------------------
(* Helpers.                                                                *)

Min(a, b) == IF a < b THEN a ELSE b

RECURSIVE SumSeq(_)
SumSeq(s) == IF s = <<>> THEN 0 ELSE Head(s) + SumSeq(Tail(s))

SeqsUpTo(S, n) == UNION {[1..k -> S] : k \in 0..n}

\* zip(a, b): stops at the shorter of the two sequences
Zip(a, b) == [k \in 1..Min(Len(a), Len(b)) |-> <<a[k], b[k]>>]

\* Python `None` and a keyword that was not passed at all
None == "None"
Missing == "<missing>"

----------------------------------------------------------------------------
(* The named variants and the generated ones.                              *)

MobileOneS0 == [num_blocks |-> <<2, 8, 10, 1>>, num_channels |-> <<48, 128, 256, 1024>>,
                stem_channels |-> 48, branch_size |-> 4]
MobileOneS1 == [num_blocks |-> <<2, 8, 10, 1>>, num_channels |-> <<96, 192, 512, 1280>>,
                stem_channels |-> 64, branch_size |-> 1]
MobileOneS2 == [num_blocks |-> <<2, 8, 10, 1>>, num_channels |-> <<96, 256, 640, 2048>>,
                stem_channels |-> 64, branch_size |-> 1]
MobileOneS3 == [num_blocks |-> <<2, 8, 10, 1>>, num_channels |-> <<128, 320, 768, 2048>>,
                stem_channels |-> 64, branch_size |-> 1]

NamedVariants == {MobileOneS0, MobileOneS1, MobileOneS2, MobileOneS3}

\* MobileOne called directly: any two sequences, of equal length or not
GeneratedSpecs ==
    [num_blocks : SeqsUpTo(0..MaxBlocks, MaxStages),
     num_channels : SeqsUpTo({8, 16}, MaxStages),
     stem_channels : {8},
     branch_size : {2}]

VariantSpecs == NamedVariants \cup GeneratedSpecs

WeightsArgs == {Missing, None, "imagenet"}

----------------------------------------------------------------------------
(* Class attribute available_feature_keys.                                 *)

available_feature_keys ==
    <<"STEM_S2">> \o
    [k \in 1..Min(4, Len(<<4, 8, 16, 32>>)) |->
        "BLOCK" \o ToString(k - 1) \o "_S" \o ToString(<<4, 8, 16, 32>>[k])]

----------------------------------------------------------------------------
(* Layers.                                                                 *)

\* defaults of ReparameterizableConv2D's signature, used by the stem call
DEFAULT_HAS_SCALE == TRUE
DEFAULT_USE_DEPTHWISE == FALSE

\* a freshly initialised weight
FreshWeight == 0

\* the weights a unit owns: kernel and bias per branch when multi-branch,
\* the kernel and bias of reparameterized_conv2d when fused
UnitWeightCount(branch_size, reparameterized) ==
    IF reparameterized THEN 2 ELSE 2 * branch_size

ReparameterizableConv2D(filters, kernel_size, strides_, has_skip, has_scale, use_depthwise, branch_size, reparameterized, name, inputs) ==
    [class |-> "ReparameterizableConv2D",
     name |-> name,
     filters |-> filters,
     in_ch |-> inputs.channels,
     kernel_size |-> kernel_size,
     strides |-> strides_,
     has_skip |-> has_skip,
     has_scale |-> has_scale,
     use_depthwise |-> use_depthwise,
     branch_size |-> branch_size,
     reparameterized |-> reparameterized,
     activation |-> "relu",
     weights |-> [j \in 1..UnitWeightCount(branch_size, reparameterized) |-> FreshWeight]]

PlainLayer(class, name, nweights) ==
    [class |-> class, name |-> name, weights |-> [j \in 1..nweights |-> FreshWeight]]

\* determine_input_tensor and build_preprocessing(x, "imagenet")
PreprocessingLayers ==
    <<PlainLayer("InputLayer", "input_layer", 0),
      PlainLayer("Rescaling", "rescaling", 0),
      PlainLayer("Normalization", "normalization", 0)>>

\* build_head(x): pooling and classifier
HeadLayers ==
    <<PlainLayer("GlobalAveragePooling2D", "avg_pool", 0),
      PlainLayer("Dense", "classifier", 2)>>

\* the value a pretrained weights file holds for weight j of layer i
PretrainedWeight(i, j) == 10 * i + j

\* super().__init__(..., weights=...): loads the descriptor's file, if any
LoadWeights(ls, weights) ==
    IF weights = None THEN ls
    ELSE [i \in 1..Len(ls) |->
            [ls[i] EXCEPT !.weights = [j \in 1..Len(ls[i].weights) |-> PretrainedWeight(i, j)]]]

\* features[key] = value: a new key is appended, an existing key keeps its place
DictSet(d, key, value) ==
    IF \E i \in 1..Len(d) : d[i].key = key
    THEN [i \in 1..Len(d) |-> IF d[i].key = key THEN [d[i] EXCEPT !.value = value] ELSE d[i]]
    ELSE Append(d, [key |-> key, value |-> value])

Keys(d) == [i \in 1..Len(d) |-> d[i].key]

NoObject == [built |-> FALSE, layers |-> <<>>, features |-> <<>>,
             num_blocks |-> <<>>, num_channels |-> <<>>, stem_channels |-> 0,
             branch_size |-> 0, reparameterized |-> FALSE, weights |-> None]

----------------------------------------------------------------------------
(* MobileOne.__init__                                                      *)

Init ==
    /\ pc = "start"
    /\ who = "self"
    /\ kw = [num_blocks |-> <<>>, num_channels |-> <<>>, stem_channels |-> 0,
             branch_size |-> 0, reparameterized |-> FALSE, weights |-> None]
    /\ x = [channels |-> 0, layer |-> 0]
    /\ features = <<>>
    /\ layers = <<>>
    /\ current_strides = 0
    /\ current_stage_idx = 0
    /\ current_block_idx = 0
    /\ strides = 0
    /\ block_iter = 0
    /\ self = NoObject
    /\ model = NoObject
    /\ pair_idx = 0
    /\ returned = NoObject
    /\ err = "none"

\* the caller constructs a MobileOne
New ==
    /\ pc = "start"
    /\ \E spec \in VariantSpecs, reparameterized \in BOOLEAN, weights \in WeightsArgs :
          kw' = [num_blocks |-> spec.num_blocks, num_channels |-> spec.num_channels,
                 stem_channels |-> spec.stem_channels, branch_size |-> spec.branch_size,
                 reparameterized |-> reparameterized, weights |-> weights]
    /\ who' = "self"
    /\ pc' = "check"
    /\ UNCHANGED <<x, features, layers, current_strides, current_stage_idx,
                   current_block_idx, strides, block_iter, self, model, pair_idx,
                   returned, err>>

\* line 32 with `or` for `and`
WeightsIncompatible_or == kw.weights # None \/ kw.reparameterized = TRUE

\* line 32
WeightsIncompatible == kw.weights # None /\ kw.reparameterized = TRUE

\* lines 32-40
CheckWeights ==
    /\ pc = "check"
    /\ IF kw.weights = Missing
       THEN pc' = "raised" /\ err' = "KeyError"
       ELSE IF WeightsIncompatible
            THEN pc' = "raised" /\ err' = "ValueError"
            ELSE pc' = "preprocess" /\ err' = err
    /\ UNCHANGED <<who, kw, x, features, layers, current_strides, current_stage_idx,
                   current_block_idx, strides, block_iter, self, model, pair_idx,
                   returned>>

\* lines 41-56
BuildPreprocessing ==
    /\ pc = "preprocess"
    /\ layers' = PreprocessingLayers
    /\ x' = [channels |-> 3, layer |-> Len(PreprocessingLayers)]
    /\ features' = <<>>
    /\ pc' = "stem"
    /\ UNCHANGED <<who, kw, current_strides, current_stage_idx, current_block_idx,
                   strides, block_iter, self, model, pair_idx, returned, err>>

\* lines 58-72
Stem ==
    /\ pc = "stem"
    /\ layers' = Append(layers,
            ReparameterizableConv2D(kw.stem_channels, 3, 2, FALSE, DEFAULT_HAS_SCALE,
                                    DEFAULT_USE_DEPTHWISE, 1, kw.reparameterized,
                                    "stem", x))
    /\ x' = [channels |-> kw.stem_channels, layer |-> Len(layers) + 1]
    /\ features' = DictSet(features, "STEM_S2", x')
    /\ current_strides' = 2
    /\ current_stage_idx' = 0
    /\ pc' = "stage"
    /\ UNCHANGED <<who, kw, current_block_idx, strides, block_iter, self, model,
                   pair_idx, returned, err>>

\* line 74
stages == Zip(kw.num_channels, kw.num_blocks)
c == stages[current_stage_idx + 1][1]
n == stages[current_stage_idx + 1][2]

\* lines 73-78
StageBegin ==
    /\ pc = "stage"
    /\ current_stage_idx < Len(stages)
    /\ strides' = 2
    /\ current_strides' = current_strides * strides'
    /\ current_block_idx' = 0
    /\ block_iter' = 0
    /\ pc' = "block"
    /\ UNCHANGED <<who, kw, x, features, layers, current_stage_idx, self, model,
                   pair_idx, returned, err>>

\* line 81 without the reset to 1 after the first block
block_strides_never_reset == strides

\* line 81
block_strides == IF current_block_idx = 0 THEN strides ELSE 1
\* line 82
input_channels == x.channels
\* line 83 with the skip path dropped from the fused form
has_skip1_training_only == (IF current_block_idx = 0 THEN strides ELSE 1) = 1
                               /\ ~kw.reparameterized
\* line 83
has_skip1 == block_strides = 1
\* line 84
has_skip2 == input_channels = c
\* lines 85-86
name1 == "stages_" \o ToString(current_stage_idx) \o "_" \o ToString(current_block_idx)
name2 == "stages_" \o ToString(current_stage_idx) \o "_" \o ToString(current_block_idx + 1)

\* lines 87-98
Depthwise ==
    ReparameterizableConv2D(input_channels, 3, block_strides, has_skip1,
                            DEFAULT_HAS_SCALE, TRUE, kw.branch_size,
                            kw.reparameterized, name1, x)
\* lines 99-111
Pointwise ==
    ReparameterizableConv2D(c, 1, 1, has_skip2, FALSE, FALSE, kw.branch_size,
                            kw.reparameterized, name2,
                            [channels |-> input_channels, layer |-> Len(layers) + 1])

\* lines 80-112, one iteration
Block ==
    /\ pc = "block"
    /\ block_iter < n
    /\ strides' = block_strides
    /\ layers' = layers \o <<Depthwise, Pointwise>>
    /\ x' = [channels |-> c, layer |-> Len(layers) + 2]
    /\ current_block_idx' = current_block_idx + 2
    /\ block_iter' = block_iter + 1
    /\ UNCHANGED <<pc, who, kw, features, current_strides, current_stage_idx, self,
                   model, pair_idx, returned, err>>

\* line 115 naming the block stride for the cumulative one
feature_key_block_strides ==
    "BLOCK" \o ToString(current_stage_idx) \o "_S" \o ToString(strides)

\* line 115
feature_key == "BLOCK" \o ToString(current_stage_idx) \o "_S" \o ToString(current_strides)

\* lines 114-115, then the next stage
AddFeature ==
    /\ pc = "block"
    /\ block_iter >= n
    /\ features' = DictSet(features, feature_key, x)
    /\ current_stage_idx' = current_stage_idx + 1
    /\ pc' = "stage"
    /\ UNCHANGED <<who, kw, x, layers, current_strides, current_block_idx, strides,
                   block_iter, self, model, pair_idx, returned, err>>

\* lines 117-127: the object __init__ leaves behind
Constructed ==
    [built |-> TRUE,
     layers |-> LoadWeights(layers \o HeadLayers, kw.weights),
     features |-> features,
     num_blocks |-> kw.num_blocks,
     num_channels |-> kw.num_channels,
     stem_channels |-> kw.stem_channels,
     branch_size |-> kw.branch_size,
     reparameterized |-> kw.reparameterized,
     weights |-> kw.weights]

\* lines 117-127
Finish ==
    /\ pc = "stage"
    /\ current_stage_idx >= Len(stages)
    /\ layers' = layers \o HeadLayers
    /\ IF who = "self"
       THEN /\ self' = Constructed
            /\ pc' = "built"
            /\ UNCHANGED <<model, pair_idx>>
       ELSE /\ model' = Constructed
            /\ pc' = "transfer"
            /\ pair_idx' = 1
            /\ UNCHANGED self
    /\ UNCHANGED <<who, kw, x, features, current_strides, current_stage_idx,
                   current_block_idx, strides, block_iter, returned, err>>

----------------------------------------------------------------------------
(* MobileOne.get_config and MobileOne.get_reparameterized_model            *)

\* lines 129-140
get_config ==
    [num_blocks |-> self.num_blocks,
     num_channels |-> self.num_channels,
     stem_channels |-> self.stem_channels,
     branch_size |-> self.branch_size,
     reparameterized |-> self.reparameterized,
     weights |-> self.weights]

\* lines 153-157: the call, up to the nested MobileOne(**config)
GetReparameterizedModel ==
    /\ pc = "built"
    /\ kw' = [get_config EXCEPT !.reparameterized = TRUE, !.weights = None]
    /\ who' = "model"
    /\ pc' = "check"
    \* the nested __init__ runs in a frame of its own
    /\ x' = [channels |-> 0, layer |-> 0]
    /\ features' = <<>>
    /\ layers' = <<>>
    /\ current_strides' = 0
    /\ current_stage_idx' = 0
    /\ current_block_idx' = 0
    /\ strides' = 0
    /\ block_iter' = 0
    /\ UNCHANGED <<self, model, pair_idx, returned, err>>

\* line 159: hasattr(layer, "get_reparameterized_weights")
HasGetReparameterizedWeights(l) == l.class = "ReparameterizableConv2D"

\* the layer owns a reparameterized_conv2d (lines 161-162 read it)
HasReparameterizedConv2D(l) ==
    l.class = "ReparameterizableConv2D" /\ l.reparameterized

\* the shape of a unit's fused kernel
KernelShape(l) ==
    <<l.kernel_size, l.kernel_size, IF l.use_depthwise THEN 1 ELSE l.in_ch, l.filters>>

\* ReparameterizableConv2D.get_reparameterized_weights: when it fails
FusionError(l) ==
    IF l.reparameterized THEN "AlreadyFused"
    ELSE IF l.branch_size < 1 THEN "InvalidTopology"
    ELSE IF l.has_skip /\ (l.strides # 1 \/ (~l.use_depthwise /\ l.in_ch # l.filters))
         THEN "InvalidTopology"
    ELSE "none"

\* ReparameterizableConv2D.get_reparameterized_weights: the fused kernel and
\* bias, the sum over the branches plus the identity kernel of the skip path
Fuse(l) ==
    [kernel |-> SumSeq([b \in 1..l.branch_size |-> l.weights[2 * b - 1]])
                    + (IF l.has_skip THEN 1 ELSE 0),
     bias |-> SumSeq([b \in 1..l.branch_size |-> l.weights[2 * b]])]

\* line 158 pairing each target layer with the source layer after it
layer_shifted == self.layers[Min(pair_idx + 1, Len(self.layers))]

\* line 158: the pair zip() yields at pair_idx
layer == self.layers[pair_idx]
rep_layer == model.layers[pair_idx]

\* lines 164-167: zip(layer.weights, rep_layer.weights), assigned in place
CopiedWeights(src, dst) ==
    [j \in 1..Len(dst) |-> IF j <= Len(src) THEN src[j] ELSE dst[j]]

\* the exception swallowed and the target returned as far as it got
Raise_swallowed(e) ==
    /\ pc' = "returned"
    /\ err' = e
    /\ returned' = model
    /\ UNCHANGED <<model, pair_idx>>

\* an exception leaves get_reparameterized_model: nothing is returned
Raise(e) ==
    /\ pc' = "raised"
    /\ err' = e
    /\ UNCHANGED <<model, returned, pair_idx>>

\* lines 158-167, one iteration
TransferStep ==
    /\ pc = "transfer"
    /\ pair_idx <= Min(Len(self.layers), Len(model.layers))
    /\ IF HasGetReparameterizedWeights(layer)
       THEN IF FusionError(layer) # "none"
            THEN Raise(FusionError(layer))
            ELSE IF ~HasReparameterizedConv2D(rep_layer)
                 THEN Raise("AttributeError")
                 ELSE IF KernelShape(layer) # KernelShape(rep_layer)
                      THEN Raise("ValueError")
                      ELSE /\ model' = [model EXCEPT !.layers[pair_idx].weights =
                                            <<Fuse(layer).kernel, Fuse(layer).bias>>]
                           /\ pair_idx' = pair_idx + 1
                           /\ UNCHANGED <<pc, err, returned>>
       ELSE /\ model' = [model EXCEPT !.layers[pair_idx].weights =
                             CopiedWeights(layer.weights, rep_layer.weights)]
            /\ pair_idx' = pair_idx + 1
            /\ UNCHANGED <<pc, err, returned>>
    /\ UNCHANGED <<who, kw, x, features, layers, current_strides, current_stage_idx,
                   current_block_idx, strides, block_iter, self>>

\* line 168
Return ==
    /\ pc = "transfer"
    /\ pair_idx > Min(Len(self.layers), Len(model.layers))
    /\ returned' = model
    /\ pc' = "returned"
    /\ UNCHANGED <<who, kw, x, features, layers, current_strides, current_stage_idx,
                   current_block_idx, strides, block_iter, self, model, pair_idx, err>>

----------------------------------------------------------------------------
(* Vocabulary of the properties.                                           *)

IsUnit(l) == l.class = "ReparameterizableConv2D"

\* the ReparameterizableConv2D layers of a layer sequence, in order
Units(ls) == SelectSeq(ls, IsUnit)

\* every field of a layer but its mode flag and its weights
Topology(l) ==
    IF IsUnit(l)
    THEN [l EXCEPT !.reparameterized = FALSE, !.weights = <<>>]
    ELSE [l EXCEPT !.weights = <<>>]

RECURSIVE StrideProduct(_)
StrideProduct(ls) ==
    IF ls = <<>> THEN 1
    ELSE (IF IsUnit(Head(ls)) THEN Head(ls).strides ELSE 1) * StrideProduct(Tail(ls))

RECURSIVE Pow2(_)
Pow2(k) == IF k = 0 THEN 1 ELSE 2 * Pow2(k - 1)

IsPrefix(s, t) == Len(s) <= Len(t) /\ \A k \in 1..Len(s) : s[k] = t[k]

Unique(s) == \A a, b \in 1..Len(s) : s[a] = s[b] => a = b

IsS0(o) ==
    /\ o.num_blocks = <<2, 8, 10, 1>>
    /\ o.num_channels = <<48, 128, 256, 1024>>
    /\ o.stem_channels = 48

Assembling == pc \in {"check", "preprocess", "stem", "stage", "block"}

\* an exception left __init__ (no transfer had begun)
RaisedByInit == pc = "raised" /\ pair_idx = 0
\* an exception left the loop of get_reparameterized_model
RaisedByTransfer == pc = "raised" /\ pair_idx >= 1

----------------------------------------------------------------------------
(* C1: reparameterized=True together with a non-null weights descriptor is *)
(* rejected with ValueError before anything is assembled: no layer, no     *)
(* feature entry, no tensor and no object exists when the error is raised; *)
(* for every other combination of (weights, reparameterized) the check     *)
(* raises nothing.                                                         *)
C1_RejectedBeforeAssembly ==
    /\ (pc # "start" /\ kw.weights \notin {None, Missing} /\ kw.reparameterized)
          => /\ pc \in {"check", "raised"}
             /\ pc = "raised" => err = "ValueError"
             /\ layers = <<>> /\ features = <<>>
             /\ x = [channels |-> 0, layer |-> 0]
             /\ ~self.built /\ ~model.built
    /\ (kw.weights # Missing /\ ~(kw.weights # None /\ kw.reparameterized))
          => ~RaisedByInit

C1_Witness ==
    /\ pc = "raised" /\ err = "ValueError"
    /\ kw.weights = "imagenet" /\ kw.reparameterized
    /\ layers = <<>>

----------------------------------------------------------------------------
(* C2: for num_blocks=[2,8,10,1], num_channels=[48,128,256,1024],          *)
(* stem_channels=48 the feature keys are, in insertion order, STEM_S2,     *)
(* BLOCK0_S4, BLOCK1_S8, BLOCK2_S16, BLOCK3_S32: unique, equal to          *)
(* available_feature_keys, in Training and in Inference mode, and at every *)
(* point of the assembly the keys recorded so far are a prefix of them.    *)
C2_Keys == <<"STEM_S2", "BLOCK0_S4", "BLOCK1_S8", "BLOCK2_S16", "BLOCK3_S32">>

\* C2: the feature keys of the S0 arguments, in order, in both modes
C2_FeatureKeysS0 ==
    /\ \A o \in {self, model} :
          (o.built /\ IsS0(o)) =>
              /\ Keys(o.features) = C2_Keys
              /\ Keys(o.features) = available_feature_keys
              /\ Unique(Keys(o.features))
    /\ (Assembling /\ IsS0(kw)) =>
          /\ IsPrefix(Keys(features), C2_Keys)
          /\ pc \in {"stage", "block"} => Len(features) = current_stage_idx + 1

C2_Witness ==
    /\ self.built /\ IsS0(self) /\ ~self.reparameterized
    /\ model.built /\ IsS0(model) /\ model.reparameterized
    /\ Len(model.features) = 5

----------------------------------------------------------------------------
(* C3: the model assembled in Inference mode from the configuration of a   *)
(* model assembled in Training mode has as many layers, every layer agrees *)
(* with its counterpart in every field but the mode flag (and the weights  *)
(* it holds), the feature dicts agree, and the mode flag differs on every  *)
(* unit.                                                                   *)
C3_SameTopology ==
    (self.built /\ model.built /\ ~self.reparameterized) =>
        /\ Len(self.layers) = Len(model.layers)
        /\ \A k \in 1..Len(self.layers) :
              /\ Topology(self.layers[k]) = Topology(model.layers[k])
              /\ IsUnit(self.layers[k]) =>
                    /\ ~self.layers[k].reparameterized
                    /\ model.layers[k].reparameterized
        /\ self.features = model.features

C3_Witness ==
    /\ self.built /\ model.built /\ ~self.reparameterized
    /\ \E k \in 1..Len(model.layers) :
          /\ IsUnit(model.layers[k])
          /\ model.layers[k].use_depthwise
          /\ model.layers[k].has_skip
    /\ \E k \in 1..Len(model.layers) :
          /\ IsUnit(model.layers[k])
          /\ model.layers[k].kernel_size = 1
          /\ ~model.layers[k].has_skip

----------------------------------------------------------------------------
(* C4: a model is never built from num_channels and num_blocks of          *)
(* different lengths.                                                      *)
C4_LengthMismatchRejected ==
    \A o \in {self, model} :
        o.built => Len(o.num_channels) = Len(o.num_blocks)

----------------------------------------------------------------------------
(* C5: the transfer is to reject source and target layer sequences that    *)
(* disagree. The target is always built from the source's get_config(), so *)
(* whenever the loop of get_reparameterized_model runs the two sequences   *)
(* have the same length and the same topology layer by layer: the case of  *)
(* the claim does not arise.                                               *)
C5_PairsAlwaysLineUp ==
    model.built =>
        /\ Len(self.layers) = Len(model.layers)
        /\ \A k \in 1..Len(self.layers) :
              Topology(self.layers[k]) = Topology(model.layers[k])

----------------------------------------------------------------------------
----------------------------------------------------------------------------
(* C8: every stage (c, n) emits n (depthwise, pointwise) pairs; the        *)
(* depthwise unit of the first pair has stride 2, every other unit of the  *)
(* stage stride 1; a depthwise unit has kernel 3, as many output as input  *)
(* channels (the running count) and a skip path iff its stride is 1; a     *)
(* pointwise unit has kernel 1, c output channels and a skip path iff the  *)
(* running count equals c; the model has 1 + 2*sum(num_blocks) units.      *)
C8_StageLayout(o) ==
    LET us == Units(o.layers)
        st == Zip(o.num_channels, o.num_blocks)
        nb == [i \in 1..Len(st) |-> st[i][2]]
    IN  /\ Len(us) = 1 + 2 * SumSeq(nb)
        /\ \A i \in 1..Len(st) : \A p \in 0..(nb[i] - 1) :
              LET d == 1 + 2 * SumSeq(SubSeq(nb, 1, i - 1)) + 2 * p + 1
                  dw == us[d]
                  pw == us[d + 1]
                  running == us[d - 1].filters
              IN  /\ dw.name = "stages_" \o ToString(i - 1) \o "_" \o ToString(2 * p)
                  /\ dw.kernel_size = 3
                  /\ dw.strides = (IF p = 0 THEN 2 ELSE 1)
                  /\ dw.in_ch = running /\ dw.filters = running
                  /\ dw.has_skip = (dw.strides = 1)
                  /\ dw.use_depthwise
                  /\ dw.branch_size = o.branch_size
                  /\ pw.name = "stages_" \o ToString(i - 1) \o "_" \o ToString(2 * p + 1)
                  /\ pw.kernel_size = 1
                  /\ pw.strides = 1
                  /\ pw.in_ch = running /\ pw.filters = st[i][1]
                  /\ pw.has_skip = (running = st[i][1])
                  /\ ~pw.use_depthwise /\ ~pw.has_scale
                  /\ pw.branch_size = o.branch_size

\* the layout of the stages that assembly builds (those zip() pairs up)
C8_BuiltStagesLayout ==
    \A o \in {self, model} : o.built => C8_StageLayout(o)

\* C8: every built model has the stage layout and 1 + 2*sum(num_blocks)
\* units in all
C8_UnitLayout ==
    \A o \in {self, model} :
        o.built => /\ C8_StageLayout(o)
                   /\ Len(Units(o.layers)) = 1 + 2 * SumSeq(o.num_blocks)

----------------------------------------------------------------------------
(* C9: the transfer is lock-step: every target layer below the loop        *)
(* position holds exactly what the source layer at its own index yields    *)
(* (the fused kernel and bias when the source layer exposes fusion, the    *)
(* source weights position by position otherwise), every target layer at   *)
(* or above it is untouched, no write misses its target, and no step       *)
(* changes the source model.                                               *)
C9_Expected(i) ==
    IF HasGetReparameterizedWeights(self.layers[i])
    THEN <<Fuse(self.layers[i]).kernel, Fuse(self.layers[i]).bias>>
    ELSE [j \in 1..Len(model.layers[i].weights) |->
            IF j <= Len(self.layers[i].weights)
            THEN self.layers[i].weights[j] ELSE FreshWeight]

C9_Written ==
    (model.built /\ pair_idx >= 1) =>
        /\ \A i \in 1..Len(model.layers) :
              IF i < pair_idx
              THEN i <= Len(self.layers) /\ model.layers[i].weights = C9_Expected(i)
              ELSE \A j \in 1..Len(model.layers[i].weights) :
                      model.layers[i].weights[j] = FreshWeight
        /\ err \notin {"AttributeError", "ValueError"}
        /\ pc = "returned" => returned = model /\ pair_idx = Len(model.layers) + 1

\* C9: the written target layers are those of lock-step pairing, and the
\* source model never changes
C9_LockStep ==
    /\ []C9_Written
    /\ [][self.built => self' = self]_vars

C9_Witness ==
    /\ pc = "returned"
    /\ self.weights = "imagenet"
    /\ \E i \in 1..Len(self.layers) :
          /\ IsUnit(self.layers[i])
          /\ self.layers[i].has_skip
          /\ returned.layers[i].weights = C9_Expected(i)
    /\ returned.layers[Len(returned.layers)].weights
          = self.layers[Len(self.layers)].weights

----------------------------------------------------------------------------
(* C10: when every block count is at least 1, the stride in the key of     *)
(* stage i is 2^(i+2) and is the product of the strides of all units up to *)
(* the one whose output the key names; between stages the tracked          *)
(* current_strides equals the product of the strides of the units emitted. *)
C10_BlocksPositive(o) == \A j \in 1..Len(o.num_blocks) : o.num_blocks[j] >= 1

\* index of the last layer of the stage-th stage (1-based)
C10_StageEnd(blocks, stage) ==
    Len(PreprocessingLayers) + 1 + 2 * SumSeq(SubSeq(blocks, 1, stage))

C10_FeaturesTrue(fs, ls, blocks) ==
    \A k \in 2..Len(fs) :
        /\ fs[k].key = "BLOCK" \o ToString(k - 2) \o "_S"
                          \o ToString(StrideProduct(SubSeq(ls, 1, fs[k].value.layer)))
        /\ StrideProduct(SubSeq(ls, 1, fs[k].value.layer)) = Pow2(k)
        /\ fs[k].value.layer = C10_StageEnd(blocks, k - 1)

\* C10: with all block counts >= 1 the stride in each stage key is the true
\* cumulative stride
C10_StrideSuffixTrue ==
    /\ \A o \in {self, model} :
          (o.built /\ C10_BlocksPositive(o)) => C10_FeaturesTrue(o.features, o.layers, o.num_blocks)
    /\ (C10_BlocksPositive(kw) /\ pc \in {"stage", "block"}) =>
          /\ C10_FeaturesTrue(features, layers, kw.num_blocks)
          /\ (pc = "stage" \/ block_iter >= 1) => current_strides = StrideProduct(layers)

C10_Witness ==
    /\ self.built /\ C10_BlocksPositive(self)
    /\ Len(self.features) = 3
    /\ self.features[3].key = "BLOCK1_S8"
    /\ Len(Units(self.layers)) = 7

Next == New \/ CheckWeights \/ BuildPreprocessing \/ Stem \/ StageBegin \/ Block
          \/ AddFeature \/ Finish \/ GetReparameterizedModel \/ TransferStep
          \/ Return

Spec == Init /\ [][Next]_vars

====
